---- MODULE Spec2Model ----
(***************************************************************************)
(* A model of strcalc.c: the tokenizer with its two-token cursor, the      *)
(* recursive-descent parser, the tree printer, the evaluator and main().   *)
(*                                                                         *)
(* Characters are one-character strings, buffers are sequences of          *)
(* characters.  Every C function is an operator of the same name; the      *)
(* functions that change the process (stdin position, stderr, the heap,    *)
(* the cursor) take and return the record `tz`, which holds the fields of  *)
(* tokenizer_t together with the process state the functions reach         *)
(* through it:                                                             *)
(*   in, cur, next   the fields of tokenizer_t                             *)
(*   pos             the read position of the stream `in`                  *)
(*   stderr          the characters reported by err() in next_tok          *)
(*   mallocs         the number of token buffers malloc'ed so far; the     *)
(*                   k-th one is the block with address k                  *)
(*   frees           the addresses passed to free() by tok_free, in order  *)
(*   consumed        the number of tokenizer_consume calls so far          *)
(*   junk, lits      junk[k] is the value the k-th node malloc'ed by       *)
(*                   ast_new_lit finds in its never-written `type` field;  *)
(*                   lits counts those nodes                               *)
(***************************************************************************)
EXTENDS Integers, Sequences, FiniteSets

VARIABLES input, pc, tz, p, buf, out, errs, status, seen

vars == <<input, pc, tz, p, buf, out, errs, status, seen>>

----------------------------------------------------------------------------
(* Bounds of the model *)

MaxLen == 5

MaxCursorLen == 4

MaxConsume == 4

\* The largest block malloc serves to the evaluator, in characters.
MemLimit == 24

----------------------------------------------------------------------------
(* Program constants *)

TOK_STR == 0

TOK_OP == 1

TOK_EOF == 2

EX_LIT == 0

EX_CONCAT == 1

EX_REPEAT == 2

\* Any value of the `type` field other than the three enumerators.
EX_OTHER == EX_REPEAT + 1

INITIAL_CAP == 8

\* An unsigned long is ULONG_LIMBS digits of base LimbBase (64 bits).
ULONG_LIMBS == 4

LimbBase == 2 ^ 16

EXIT_SUCCESS == 0

EXIT_FAILURE == 1

DigitChars == {"0", "1", "2", "3", "4", "5", "6", "7", "8", "9"}

OpChars == {"(", ")", ".", "^"}

\* ' ', '\t', '\b', '\v', '\r', '\n'
WhiteSpace == {" ", "\t", "BS", "VT", "\r", "\n"}

DigitVal ==
  [c \in DigitChars |->
     CASE c = "0" -> 0 [] c = "1" -> 1 [] c = "2" -> 2 [] c = "3" -> 3
       [] c = "4" -> 4 [] c = "5" -> 5 [] c = "6" -> 6 [] c = "7" -> 7
       [] c = "8" -> 8 [] c = "9" -> 9]

\* The characters the inputs are drawn from: two digits, the four
\* operators, one whitespace character and one unrecognized character.
InputChars == {"0", "2", "(", ")", ".", "^", " ", "#"}

TextsUpTo(len) == UNION {[1..n -> InputChars] : n \in 0..len}

Texts == TextsUpTo(MaxLen)

CursorTexts == TextsUpTo(MaxCursorLen)

NodeKinds == {EX_LIT, EX_CONCAT, EX_REPEAT, EX_OTHER}

----------------------------------------------------------------------------
(* Buffers *)

isdigit(c) == c \in DigitChars

buf_dup(b) == b

\* malloc(n) in the evaluator: NULL when n characters are not to be had.
\* No caller tests the result, and the memcpy that follows writes through it.
malloc_ok(n) == n <= MemLimit

buf_concat(a, b) ==
  IF malloc_ok(Len(a) + Len(b)) THEN [st |-> "ok", buf |-> a \o b]
  ELSE [st |-> "ub", buf |-> <<>>]

\* num * 10 + d on an unsigned long, from digit i on with carry c: the
\* carry out of the last digit is lost, which is the wrap at 2^64.
RECURSIVE ulong_muladd(_, _, _)
ulong_muladd(num, i, c) ==
  IF i > ULONG_LIMBS THEN num
  ELSE LET v == num[i] * 10 + c IN
    ulong_muladd([num EXCEPT ![i] = v % LimbBase], i + 1, v \div LimbBase)

ulong_zero == [i \in 1..ULONG_LIMBS |-> 0]

\* The loop of buf_asulong.
RECURSIVE asulong_loop(_, _, _)
asulong_loop(b, i, num) ==
  IF i > Len(b) THEN num
  ELSE asulong_loop(b, i + 1, ulong_muladd(num, 1, DigitVal[b[i]]))

buf_asulong(b) == asulong_loop(b, 1, ulong_zero)

\* Whether the unsigned long is below LimbBase, and then num[1] is its value.
ulong_small(num) == \A i \in 2..ULONG_LIMBS : num[i] = 0

RECURSIVE repeat_loop(_, _)
repeat_loop(a, i) == IF i = 0 THEN <<>> ELSE repeat_loop(a, i - 1) \o a

\* buf_repeat(a, reps), reps an unsigned long.  With a empty every memcpy
\* copies nothing; otherwise a.len*reps characters are asked of malloc.
buf_repeat(a, reps) ==
  IF Len(a) = 0 THEN [st |-> "ok", buf |-> <<>>]
  ELSE IF ulong_small(reps) /\ reps[1] <= MemLimit /\ malloc_ok(Len(a) * reps[1])
    THEN [st |-> "ok", buf |-> repeat_loop(a, reps[1])]
    ELSE [st |-> "ub", buf |-> <<>>]

----------------------------------------------------------------------------
(* Tokens and next_tok *)

EofTok == [type |-> TOK_EOF, op |-> "", buf |-> <<>>, cap |-> 0, ptr |-> 0]

OpTok(c) == [type |-> TOK_OP, op |-> c, buf |-> <<>>, cap |-> 0, ptr |-> 0]

\* The capacity after len characters: doubled each time len reaches it.
RECURSIVE GrowCap(_, _)
GrowCap(cap, len) == IF len >= cap THEN GrowCap(cap * 2, len) ELSE cap

StrTok(b, addr) ==
  [type |-> TOK_STR, op |-> "", buf |-> b, cap |-> GrowCap(INITIAL_CAP, Len(b)),
   ptr |-> addr]

\* The index of the first character at or after j that is not a digit
\* (Len(in) + 1 at end of input): the character ungetc puts back.
RECURSIVE DigitRun(_, _)
DigitRun(in, j) ==
  IF j <= Len(in) /\ isdigit(in[j]) THEN DigitRun(in, j + 1) ELSE j

\* next_tok dropping an unrecognized character without the call of err().
RECURSIVE next_tok_silent(_, _, _)
next_tok_silent(in, pos, addr) ==
  IF pos > Len(in) THEN [tok |-> EofTok, pos |-> pos, diag |-> <<>>]
  ELSE LET c == in[pos] IN
    IF c \in OpChars THEN [tok |-> OpTok(c), pos |-> pos + 1, diag |-> <<>>]
    ELSE IF isdigit(c) THEN
      LET e == DigitRun(in, pos + 1) IN
        [tok |-> StrTok(SubSeq(in, pos, e - 1), addr), pos |-> e, diag |-> <<>>]
    ELSE next_tok_silent(in, pos + 1, addr)

\* next_tok reading `in` from position pos; addr is the address malloc
\* returns if a buffer is allocated.  diag is what err() reported.
RECURSIVE next_tok(_, _, _)
next_tok(in, pos, addr) ==
  IF pos > Len(in) THEN [tok |-> EofTok, pos |-> pos, diag |-> <<>>]
  ELSE LET c == in[pos] IN
    IF c \in OpChars THEN [tok |-> OpTok(c), pos |-> pos + 1, diag |-> <<>>]
    ELSE IF isdigit(c) THEN
      LET e == DigitRun(in, pos + 1) IN
        [tok |-> StrTok(SubSeq(in, pos, e - 1), addr), pos |-> e, diag |-> <<>>]
    ELSE IF c \in WhiteSpace THEN next_tok(in, pos + 1, addr)
    ELSE LET r == next_tok(in, pos + 1, addr) IN
           [r EXCEPT !.diag = <<c>> \o @]

\* `if(tok->type = TOK_STR) buf_free(tok->buf)`: the assignment stores
\* TOK_STR in the token and its value decides whether free() is called.
tok_free(tok) ==
  [tok |-> [tok EXCEPT !.type = TOK_STR],
   freed |-> IF TOK_STR # 0 THEN <<tok.ptr>> ELSE <<>>]

----------------------------------------------------------------------------
(* The cursor *)

\* Lex one token into field f ("cur" or "next") of tz.
LexInto(t, f) ==
  LET r == next_tok(t.in, t.pos, t.mallocs + 1) IN
    [t EXCEPT ![f] = r.tok, !.pos = r.pos, !.stderr = @ \o r.diag,
              !.mallocs = IF r.tok.type = TOK_STR THEN @ + 1 ELSE @]

NewTz(in) ==
  [in |-> in, pos |-> 1, cur |-> EofTok, next |-> EofTok, stderr |-> <<>>,
   mallocs |-> 0, frees |-> <<>>, consumed |-> 0, junk |-> <<>>, lits |-> 0]

tokenizer_init(in) == LexInto(LexInto(NewTz(in), "cur"), "next")

tokenizer_cleanup(t) ==
  LET a == tok_free(t.cur)
      b == tok_free(t.next)
  IN [t EXCEPT !.cur = a.tok, !.next = b.tok, !.frees = @ \o a.freed \o b.freed]

tokenizer_peek(t) == t.cur

tokenizer_peeknext(t) == t.next

\* tokenizer_consume lexing the fresh token without `tz->cur = tz->next`.
tokenizer_consume_no_shift(t) ==
  LET f == tok_free(t.cur)
      u == [t EXCEPT !.frees = @ \o f.freed, !.consumed = @ + 1]
  IN LexInto(u, "next")

tokenizer_consume(t) ==
  LET f == tok_free(t.cur)
      u == [t EXCEPT !.cur = t.next, !.frees = @ \o f.freed, !.consumed = @ + 1]
  IN LexInto(u, "next")

----------------------------------------------------------------------------
(* The tree *)

NULL == [type |-> -1]

\* res->type is never written: the node carries what malloc left there.
ast_new_lit(b, junk) == [type |-> junk, buf |-> buf_dup(b)]

ast_new_binop(type, left, right) == [type |-> type, left |-> left, right |-> right]

\* A node built by ast_new_lit whose type field reads EX_CONCAT or
\* EX_REPEAT: left and right overlay buf.str and buf.len, no node at all.
IsLeaf(node) == "buf" \in DOMAIN node

RECURSIVE ast_print_inner(_, _)
ast_print_inner(node, lev) ==
  IF node.type = EX_LIT THEN
    [st |-> "ok", lines |-> << <<lev, "String literal:", node.buf>> >>]
  ELSE IF node.type \in {EX_CONCAT, EX_REPEAT} THEN
    LET head == << <<lev, "Binop:", IF node.type = EX_CONCAT THEN "." ELSE "^">>,
                   <<lev + 1, "Left:", <<>> >> >>
    IN IF IsLeaf(node) THEN [st |-> "ub", lines |-> head]
       ELSE LET l == ast_print_inner(node.left, lev + 2) IN
         IF l.st # "ok" THEN [st |-> l.st, lines |-> head \o l.lines]
         ELSE LET r == ast_print_inner(node.right, lev + 2) IN
           [st |-> r.st,
            lines |-> head \o l.lines \o << <<lev + 1, "Right:", <<>> >> >> \o r.lines]
  ELSE [st |-> "ok", lines |-> << <<lev, "<Unknown node>", <<>> >> >>]

ast_print(node) == ast_print_inner(node, 0)

----------------------------------------------------------------------------
(* The parser *)

Ok(node, t) == [ok |-> TRUE, node |-> node, tz |-> t, msg |-> ""]

Fatal(msg, t) == [ok |-> FALSE, node |-> NULL, tz |-> t, msg |-> msg]

IsOp(tok, c) == tok.type = TOK_OP /\ tok.op = c

RECURSIVE parse_toplevel(_), parse_repeat(_), concat_loop(_), parse_concat(_), parse(_)

\* parse_toplevel, TOK_STR: lines 262-263 (cur was copied before the consume)
toplevel_lit(cur, u) ==
  Ok(ast_new_lit(cur.buf, u.junk[u.lits + 1]), [u EXCEPT !.lits = @ + 1])

\* toplevel_close without the test for the closing parenthesis.
toplevel_close_unchecked(r) ==
  IF ~r.ok THEN r
  ELSE IF ~IsOp(tokenizer_peek(r.tz), ")") THEN Ok(r.node, r.tz)
  ELSE Ok(r.node, tokenizer_consume(r.tz))

\* parse_toplevel after the inner parse returned r: lines 270-273
toplevel_close(r) ==
  IF ~r.ok THEN r
  ELSE IF ~IsOp(tokenizer_peek(r.tz), ")")
    THEN Fatal("Syntax error: expected close paren", r.tz)
    ELSE Ok(r.node, tokenizer_consume(r.tz))

parse_toplevel(t) ==
  IF tokenizer_peek(t).type = TOK_STR THEN
    toplevel_lit(tokenizer_peek(t), tokenizer_consume(t))
  ELSE IF IsOp(tokenizer_peek(t), "(") THEN
    toplevel_close(parse(tokenizer_consume(t)))
  ELSE Fatal("Syntax error: expected toplevel expression", t)

\* parse_repeat with both operands parsed: line 294
repeat_node(left, right) ==
  IF ~right.ok THEN right
  ELSE Ok(ast_new_binop(EX_REPEAT, left.node, right.node), right.tz)

\* parse_repeat after the repeat operator was consumed: lines 288-293
repeat_right(u) ==
  IF IsOp(tokenizer_peeknext(u), "^") THEN parse_repeat(u) ELSE parse_toplevel(u)

\* parse_repeat with the left operand parsed: lines 283-298
repeat_rest(left) ==
  IF ~left.ok THEN left
  ELSE IF IsOp(tokenizer_peek(left.tz), "^")
    THEN repeat_node(left, repeat_right(tokenizer_consume(left.tz)))
    ELSE left

parse_repeat(t) == repeat_rest(parse_toplevel(t))

\* The body of the while loop with the right operand parsed: line 307
concat_node(left, right) ==
  IF ~right.ok THEN right
  ELSE Ok(ast_new_binop(EX_CONCAT, left.node, right.node), right.tz)

\* The while loop of parse_concat, entered with `left` parsed: lines 304-310
concat_loop(left) ==
  IF ~left.ok THEN left
  ELSE IF IsOp(tokenizer_peek(left.tz), ".")
    THEN concat_loop(concat_node(left, parse_repeat(tokenizer_consume(left.tz))))
    ELSE left

parse_concat(t) == concat_loop(parse_repeat(t))

parse(t) == parse_concat(t)

----------------------------------------------------------------------------
(* The evaluator *)

RECURSIVE eval(_)
eval(node) ==
  IF node.type = EX_LIT THEN [st |-> "ok", buf |-> buf_dup(node.buf)]
  ELSE IF node.type \in {EX_CONCAT, EX_REPEAT} THEN
    IF IsLeaf(node) THEN [st |-> "ub", buf |-> <<>>]
    ELSE LET l == eval(node.left) IN
      IF l.st # "ok" THEN l
      ELSE LET r == eval(node.right) IN
        IF r.st # "ok" THEN r
        ELSE IF node.type = EX_CONCAT THEN buf_concat(l.buf, r.buf)
             ELSE buf_repeat(l.buf, buf_asulong(r.buf))
  ELSE [st |-> "fatal", buf |-> <<>>]

----------------------------------------------------------------------------
(* main *)

\* The number of digit runs of a text: no parse allocates more literals.
RECURSIVE CountStr(_, _)
CountStr(in, pos) ==
  LET r == next_tok(in, pos, 0) IN
    IF r.tok.type = TOK_EOF THEN 0
    ELSE (IF r.tok.type = TOK_STR THEN 1 ELSE 0) + CountStr(in, r.pos)

\* Every literal node's type field reads EX_LIT.
LitJunk(s) == [i \in 1..CountStr(s, 1) |-> EX_LIT]

\* The number of nodes ast_new_lit allocates while the parser runs from t.
\* The parser reads no type field, so the number is the same whatever the
\* nodes hold.
LitsAllocated(t) == parse([t EXCEPT !.junk = LitJunk(t.in)]).tz.lits

InitWith(texts) ==
  /\ input \in texts
  /\ pc = "init"
  /\ tz = NewTz(input)
  /\ p = NULL
  /\ buf = <<>>
  /\ out = <<>>
  /\ errs = <<>>
  /\ status = <<>>
  /\ seen = <<>>

Init == InitWith(Texts)

\* line 346
TokenizerInit ==
  /\ pc = "init"
  /\ tz' = tokenizer_init(input)
  /\ pc' = "parse"
  /\ UNCHANGED <<input, p, buf, out, errs, status, seen>>

\* line 347; junk is what the heap holds where the type fields of the literal
\* nodes will lie
Parse ==
  /\ pc = "parse"
  /\ \E junk \in [1..LitsAllocated(tz) -> NodeKinds] :
       LET r == parse([tz EXCEPT !.junk = junk]) IN
         /\ tz' = [r.tz EXCEPT !.junk = <<>>]
         /\ p' = r.node
         /\ IF r.ok
            THEN /\ pc' = "print"
                 /\ UNCHANGED <<errs, status>>
            ELSE /\ pc' = "fatal"
                 /\ errs' = Append(errs, r.msg)
                 /\ status' = <<EXIT_FAILURE>>
  /\ UNCHANGED <<input, buf, out, seen>>

\* line 348
AstPrint ==
  /\ pc = "print"
  /\ LET r == ast_print(p) IN
       /\ out' = out \o r.lines
       /\ pc' = IF r.st = "ok" THEN "eval" ELSE "ub"
  /\ UNCHANGED <<input, tz, p, buf, errs, status, seen>>

\* line 349
Eval ==
  /\ pc = "eval"
  /\ LET r == eval(p) IN
       /\ buf' = r.buf
       /\ IF r.st = "fatal"
          THEN /\ pc' = "fatal"
               /\ errs' = Append(errs, "Attempt to evaluate unknown node")
               /\ status' = <<EXIT_FAILURE>>
          ELSE /\ pc' = IF r.st = "ok" THEN "result" ELSE "ub"
               /\ UNCHANGED <<errs, status>>
  /\ UNCHANGED <<input, tz, p, out, seen>>

\* line 350
PrintResult ==
  /\ pc = "result"
  /\ out' = Append(out, <<0, "result", buf>>)
  /\ pc' = "free"
  /\ UNCHANGED <<input, tz, p, buf, errs, status, seen>>

\* line 351: the nodes and the literals' buffers are released (the heap of
\* this model keeps the token buffers only)
AstFree ==
  /\ pc = "free"
  /\ pc' = "cleanup"
  /\ UNCHANGED <<input, tz, p, buf, out, errs, status, seen>>

\* lines 352-353
Cleanup ==
  /\ pc = "cleanup"
  /\ tz' = tokenizer_cleanup(tz)
  /\ pc' = "done"
  /\ status' = <<EXIT_SUCCESS>>
  /\ UNCHANGED <<input, p, buf, out, errs, seen>>

Next == TokenizerInit \/ Parse \/ AstPrint \/ Eval \/ PrintResult \/ AstFree \/ Cleanup

Spec == Init /\ [][Next]_vars

----------------------------------------------------------------------------
(* The cursor on its own: tokenizer_init, then any calls of                *)
(* tokenizer_consume, tokenizer_peek and tokenizer_peeknext.               *)

CursorInit == InitWith(CursorTexts)

Consume ==
  /\ pc = "parse"
  /\ tz.consumed < MaxConsume
  /\ tz' = tokenizer_consume(tz)
  /\ UNCHANGED <<input, pc, p, buf, out, errs, status, seen>>

\* seen: which call, after how many consumes, and the token it returned
Peek ==
  /\ pc = "parse"
  /\ seen' = <<"peek", tz.consumed, tokenizer_peek(tz)>>
  /\ UNCHANGED <<input, pc, tz, p, buf, out, errs, status>>

PeekNext ==
  /\ pc = "parse"
  /\ seen' = <<"peeknext", tz.consumed, tokenizer_peeknext(tz)>>
  /\ UNCHANGED <<input, pc, tz, p, buf, out, errs, status>>

CursorNext == TokenizerInit \/ Consume \/ Peek \/ PeekNext

SpecCursor == CursorInit /\ [][CursorNext]_vars

----------------------------------------------------------------------------
(* What the claims speak of *)

\* The i-th token next_tok produces from `in`, reading from pos with
\* `mallocs` buffers allocated before: EofTok for ever after the last one.
RECURSIVE StreamFrom(_, _, _, _)
StreamFrom(in, pos, mallocs, i) ==
  LET r == next_tok(in, pos, mallocs + 1) IN
    IF i <= 1 THEN r.tok
    ELSE StreamFrom(in, r.pos,
                    IF r.tok.type = TOK_STR THEN mallocs + 1 ELSE mallocs, i - 1)

Tok(i) == StreamFrom(input, 1, 0, i)

Terminal == {"done", "fatal", "ub"}

Parsed == pc \notin {"init", "parse"}

\* parse() returned a tree (a fatal parse leaves p NULL)
Accepted == Parsed /\ p # NULL

ResultPrinted == pc \in {"free", "cleanup", "done"}

Result == out[Len(out)][3]

IsDigits(s) == Len(s) >= 1 /\ \A i \in 1..Len(s) : isdigit(s[i])

Before(i) == SubSeq(input, 1, i - 1)

After(i) == SubSeq(input, i + 1, Len(input))

ParseText(s, junk) == parse([tokenizer_init(s) EXCEPT !.junk = junk])

\* The text parses and nothing but EndToken is left.
ValidText(s) ==
  LET r == ParseText(s, LitJunk(s)) IN r.ok /\ tokenizer_peek(r.tz).type = TOK_EOF

\* The run of main on text s up to the result: "fatal", "ub" or "ok" and buf.
RunText(s, junk) ==
  LET r == ParseText(s, junk) IN
    IF ~r.ok THEN [st |-> "fatal", buf |-> <<>>]
    ELSE IF ast_print(r.node).st # "ok" THEN [st |-> "ub", buf |-> <<>>]
    ELSE eval(r.node)

Val(s) == RunText(s, LitJunk(s))

RECURSIVE Leaves(_)
Leaves(node) ==
  IF node = NULL THEN <<>>
  ELSE IF IsLeaf(node) THEN <<node>>
  ELSE Leaves(node.left) \o Leaves(node.right)

LeavesAreLiterals == \A i \in 1..Len(Leaves(p)) : Leaves(p)[i].type = EX_LIT

\* The number of tokens c among the first k.
RECURSIVE CountOp(_, _)
CountOp(c, k) ==
  IF k = 0 THEN 0 ELSE (IF IsOp(Tok(k), c) THEN 1 ELSE 0) + CountOp(c, k - 1)

----------------------------------------------------------------------------
(* C1 *)

TrailingTokens == Accepted /\ Tok(tz.consumed + 1).type # TOK_EOF

\* C1: when a token other than EndToken is left after the top-level
\* expression has been parsed, no result is printed, and the run that exits
\* exits from fatal() with a non-zero status.
C1_TrailingGarbageIsFatal ==
  TrailingTokens =>
    /\ ~ResultPrinted
    /\ status # <<>> => (pc = "fatal" /\ status = <<EXIT_FAILURE>>)

----------------------------------------------------------------------------
(* C2 *)

\* input is a#b, a and b digit strings
SepAt(i) ==
  /\ i \in 1..Len(input)
  /\ input[i] = "#"
  /\ IsDigits(Before(i))
  /\ IsDigits(After(i))

----------------------------------------------------------------------------
(* C3 *)

\* input[i..j] is a primary of the text: a whole digit run, or a
\* parenthesis with its matching close
RECURSIVE Depth(_, _)
Depth(i, j) ==
  IF j < i THEN 0
  ELSE Depth(i, j - 1)
       + (IF input[j] = "(" THEN 1 ELSE IF input[j] = ")" THEN -1 ELSE 0)

PrimaryAt(i, j) ==
  /\ 1 <= i /\ i <= j /\ j <= Len(input)
  /\ \/ /\ IsDigits(SubSeq(input, i, j))
        /\ i = 1 \/ ~isdigit(input[i - 1])
        /\ j = Len(input) \/ ~isdigit(input[j + 1])
     \/ /\ input[i] = "(" /\ input[j] = ")"
        /\ Depth(i, j) = 0
        /\ \A k \in i..(j - 1) : Depth(i, k) > 0

Parenthesized(i, j) ==
  SubSeq(input, 1, i - 1) \o <<"(">> \o SubSeq(input, i, j) \o <<")">>
    \o SubSeq(input, j + 1, Len(input))

SameAsRun(s) == Val(s).st = "ok" /\ Val(s).buf = buf

\* C3: for every text e the program accepts, (e) is accepted and evaluates
\* to the same bytes, and so is e with any one of its primaries p replaced
\* by (p).
C3_ParenthesesNeverChangeOutput ==
  pc = "done" =>
    /\ SameAsRun(Parenthesized(1, Len(input)))
    /\ \A i, j \in 1..Len(input) : PrimaryAt(i, j) => SameAsRun(Parenthesized(i, j))

----------------------------------------------------------------------------
(* C4 *)

\* A primary: a digit string, or a valid expression in parentheses.
PrimaryText(s) ==
  \/ IsDigits(s)
  \/ /\ Len(s) >= 3
     /\ s[1] = "(" /\ s[Len(s)] = ")"
     /\ ValidText(SubSeq(s, 2, Len(s) - 1))
     /\ ValidText(s)

\* input is a^n, a a primary with a value and n a digit string
RepeatAt(i) ==
  /\ i \in 1..Len(input)
  /\ input[i] = "^"
  /\ PrimaryText(Before(i))
  /\ IsDigits(After(i))
  /\ Val(Before(i)).st = "ok"

\* value(n) copies of v, when that many characters are to be had
Copies(v, n) == buf_repeat(v, buf_asulong(n))

\* C4: the program a^n, n a digit string, ends with the value of a
\* repeated value(n) times as its result (the empty result for a^0).
C4_RepeatLaw ==
  \A i \in 1..Len(input) :
    (RepeatAt(i) /\ pc \in Terminal
       /\ Copies(Val(Before(i)).buf, After(i)).st = "ok") =>
      /\ pc = "done"
      /\ Result = Copies(Val(Before(i)).buf, After(i)).buf

----------------------------------------------------------------------------
(* C5 *)

\* input is a.b, a and b valid expressions with values
ConcatAt(i) ==
  /\ i \in 1..Len(input)
  /\ input[i] = "."
  /\ ValidText(Before(i)) /\ Val(Before(i)).st = "ok"
  /\ ValidText(After(i)) /\ Val(After(i)).st = "ok"

LeftGrouped(i, j) ==
  <<"(">> \o SubSeq(input, 1, j - 1) \o <<")">> \o SubSeq(input, j, Len(input))

RightGrouped(i, j) ==
  SubSeq(input, 1, i) \o <<"(">> \o SubSeq(input, i + 1, Len(input)) \o <<")">>

\* C5: the program a.b ends with the bytes of a followed by the bytes of b
\* as its result, and for a.b.c the programs (a.b).c and a.(b.c) evaluate to
\* the same bytes.
C5_ConcatLaw ==
  \A i \in 1..Len(input) :
    (ConcatAt(i) /\ pc \in Terminal
       /\ buf_concat(Val(Before(i)).buf, Val(After(i)).buf).st = "ok") =>
      /\ pc = "done"
      /\ Result = Val(Before(i)).buf \o Val(After(i)).buf
      /\ \A j \in (i + 1)..Len(input) :
           (input[j] = "." /\ ValidText(SubSeq(input, i + 1, j - 1))
              /\ ValidText(After(j))) =>
             /\ Val(LeftGrouped(i, j)).st = "ok"
             /\ Val(LeftGrouped(i, j)) = Val(RightGrouped(i, j))

----------------------------------------------------------------------------
(* C6 *)

CannotStartPrimary(tok) ==
  tok.type = TOK_EOF \/ (tok.type = TOK_OP /\ tok.op # "(")

\* The parser stopped where a primary has to start (at the first token, or
\* behind an open parenthesis, a dot or a caret it consumed) on a token that
\* cannot start one.
StoppedBeforePrimary ==
  /\ \/ tz.consumed = 0
     \/ \E c \in {"(", ".", "^"} : IsOp(Tok(tz.consumed), c)
  /\ CannotStartPrimary(Tok(tz.consumed + 1))

\* The parser stopped inside a parenthesis it had opened, on a token other
\* than the closing parenthesis.
StoppedUnclosed ==
  /\ CountOp("(", tz.consumed) > CountOp(")", tz.consumed)
  /\ ~IsOp(Tok(tz.consumed + 1), ")")

\* C6: when the parser meets a token that cannot start a primary where one
\* has to start, or a token other than `)` where the parenthesis it opened
\* has to be closed, the run is in the fatal state with a non-zero exit
\* status, one syntax error reported and nothing printed.
C6_MalformedRejectedBeforeOutput ==
  (Parsed /\ (StoppedBeforePrimary \/ StoppedUnclosed)) =>
    /\ pc = "fatal"
    /\ status = <<EXIT_FAILURE>>
    /\ out = <<>>
    /\ p = NULL
    /\ Len(errs) = 1
    /\ errs[1] \in {"Syntax error: expected toplevel expression",
                    "Syntax error: expected close paren"}

\* (a.b with the end of input where `)` has to come
C6_Witness ==
  /\ pc = "fatal"
  /\ out = <<>>
  /\ tz.consumed = 4
  /\ IsOp(Tok(1), "(") /\ IsOp(Tok(3), ".")
  /\ Tok(4).type = TOK_STR
  /\ Tok(5).type = TOK_EOF
  /\ StoppedUnclosed /\ ~StoppedBeforePrimary
  /\ errs = <<"Syntax error: expected close paren">>

----------------------------------------------------------------------------
(* C7 *)

Occurrences(seq, x) == Cardinality({i \in 1..Len(seq) : seq[i] = x})

\* C7: at the end of a successful run every token buffer the cursor lexed
\* has been released exactly once.
C7_TokenBuffersReleasedOnce ==
  pc = "done" => \A addr \in 1..tz.mallocs : Occurrences(tz.frees, addr) = 1

----------------------------------------------------------------------------
(* C8 *)

\* input is s1^s2^...^sk, k >= 2: digits and carets, no caret first, last
\* or next to another
BareChain ==
  /\ Len(input) >= 3
  /\ \A i \in 1..Len(input) : isdigit(input[i]) \/ input[i] = "^"
  /\ \E i \in 1..Len(input) : input[i] = "^"
  /\ isdigit(input[1]) /\ isdigit(input[Len(input)])
  /\ \A i \in 1..(Len(input) - 1) : ~(input[i] = "^" /\ input[i + 1] = "^")

\* Repeat(s_i, Repeat(s_(i+1), ... s_k)) over the tokens from the i-th on,
\* the digit strings being the odd tokens
RECURSIVE RightNested(_)
RightNested(i) ==
  IF Tok(i + 1).type = TOK_EOF THEN [type |-> EX_LIT, buf |-> Tok(i).buf]
  ELSE [type |-> EX_REPEAT, left |-> [type |-> EX_LIT, buf |-> Tok(i).buf],
        right |-> RightNested(i + 2)]

\* C8: the program s1^s2^...^sk parses to the right-nested tree of Repeat
\* nodes over the literals s1..sk, and ends with the value of that tree as
\* its result.
C8_BareChainRightNested ==
  (BareChain /\ Parsed) =>
    /\ p = RightNested(1)
    /\ (pc \in Terminal /\ eval(RightNested(1)).st = "ok") =>
         (pc = "done" /\ Result = eval(RightNested(1)).buf)

----------------------------------------------------------------------------
(* C9 *)

RECURSIVE Nodes(_)
Nodes(node) ==
  IF IsLeaf(node) THEN {node} ELSE {node} \cup Nodes(node.left) \cup Nodes(node.right)

UnknownNodeReached ==
  \/ \E i \in 1..Len(out) : out[i][2] = "<Unknown node>"
  \/ \E i \in 1..Len(errs) : errs[i] = "Attempt to evaluate unknown node"

\* C9: every node of the tree the parser built has kind Literal, Concat or
\* Repeat, the nodes made by ast_new_lit have kind Literal, printing and
\* evaluating the tree never reach the unknown-node branch, and the program
\* that is a single literal s ends with s as its result.
C9_NodeKindsAreValid ==
  Accepted =>
    /\ \A n \in Nodes(p) : n.type \in {EX_LIT, EX_CONCAT, EX_REPEAT}
    /\ LeavesAreLiterals
    /\ ~UnknownNodeReached
    /\ (IsDigits(input) /\ pc \in Terminal) => (pc = "done" /\ Result = input)

----------------------------------------------------------------------------
(* C10 *)

\* C10: after tokenizer_init and k calls of tokenizer_consume the cursor
\* holds the tokens k+1 and k+2 of the stream, and what tokenizer_peek and
\* tokenizer_peeknext returned after k consumes are those two tokens.
C10_CursorWindow ==
  pc = "parse" =>
    /\ tokenizer_peek(tz) = Tok(tz.consumed + 1)
    /\ tokenizer_peeknext(tz) = Tok(tz.consumed + 2)
    /\ seen # <<>> =>
         /\ seen[2] <= tz.consumed
         /\ seen[1] = "peek" => seen[3] = Tok(seen[2] + 1)
         /\ seen[1] = "peeknext" => seen[3] = Tok(seen[2] + 2)

\* three consumes into a text of four tokens, the last one just peeked
C10_Witness ==
  /\ pc = "parse"
  /\ tz.consumed = 3
  /\ seen = <<"peeknext", 3, Tok(5)>>
  /\ Tok(1).type = TOK_STR
  /\ Tok(3).type = TOK_STR
  /\ tokenizer_peek(tz).type = TOK_OP
  /\ tokenizer_peeknext(tz).type = TOK_EOF

====
